---- MODULE Spec2Model ----
(***************************************************************************)
(* The sb_mount LSM hook of ebpfguard (ebpfguard-ebpf/src/sb_mount.rs).    *)
(* Several execution contexts run sb_mount concurrently; each map lookup   *)
(* is one atomic step.  The user-space control plane inserts and removes   *)
(* single entries of ALLOWED_SB_MOUNT and DENIED_SB_MOUNT between them.    *)
(***************************************************************************)
EXTENDS Integers, Sequences, FiniteSets, TLC

\* ---------------------------------------------------------------- bounds
MaxInode == 6      \* inodes of executables are 5 .. MaxInode
MaxFailures == 1   \* lookups that fail to complete in one behaviour

\* ------------------------------------------------------------- constants
INODE_WILDCARD == 0

Inodes == 5 .. MaxInode
Keys == {INODE_WILDCARD} \cup Inodes
Ctx == {1, 2}                       \* execution contexts; ctx.pid() of context c is c
MapNames == {"ALLOWED_SB_MOUNT", "DENIED_SB_MOUNT"}
Mode == {"Allowlist", "Denylist"}
Action == {"Allow", "Deny"}
NoValue == "none"
NoInode == 0 - 1                    \* binprm_inode before line 27 has set it

VARIABLES
    ALLOWED_SB_MOUNT,   \* set of keys present in the allow map
    DENIED_SB_MOUNT,    \* set of keys present in the deny map
    pc,                 \* pc[c]: where context c is in sb_mount
    binprm_inode,       \* binprm_inode[c]: the local of line 27
    map,                \* map[c]: the map passed to check_conditions
    mode,               \* mode[c]: the mode passed to check_conditions
    result,             \* result[c]: what sb_mount returned
    lookups,            \* lookups[c]: the map.get calls of this invocation
    alerts,             \* alerts[c]: the ALERT_SB_MOUNT.output calls of this invocation
    failuresLeft,       \* lookups that may still fail to complete
    tracked,            \* contexts whose invocations are followed against the maps' history
    during,             \* during[c]: decisions the maps that existed since the first
                        \* lookup of this invocation give for binprm_inode[c]
    changed             \* changed[c]: a map changed since that first lookup

vars == <<ALLOWED_SB_MOUNT, DENIED_SB_MOUNT, pc, binprm_inode, map, mode,
          result, lookups, alerts, failuresLeft, tracked, during, changed>>

tables == <<ALLOWED_SB_MOUNT, DENIED_SB_MOUNT>>

Table(m) == IF m = "ALLOWED_SB_MOUNT" THEN ALLOWED_SB_MOUNT ELSE DENIED_SB_MOUNT

\* ------------------------------------------------------------ pure parts

\* map.get(&key): the outcomes the helper can produce.  A lookup that cannot
\* be completed gives the null pointer, i.e. None, like an absent key.
get(m, key) ==
    {[found |-> key \in Table(m), completed |-> TRUE]}
    \cup (IF failuresLeft > 0
          THEN {[found |-> FALSE, completed |-> FALSE]}
          ELSE {})

\* What lookups[c] keeps of one map.get call: the line that made it, the map
\* and key it was given and what it came back with.
Lookup(line, m, key, g) ==
    [line |-> line, map |-> m, key |-> key, found |-> g.found,
     completed |-> g.completed]

\* (mutant) the maps of the two calls of check_conditions_and_alert are swapped
ExceptionMapSwapped(md) ==
    IF md = "Denylist" THEN "ALLOWED_SB_MOUNT" ELSE "DENIED_SB_MOUNT"

\* (mutant) both calls of check_conditions_and_alert are handed the allow map
ExceptionMapAllowed(md) == "ALLOWED_SB_MOUNT"

\* (mutant) both calls of check_conditions_and_alert are handed the deny map
ExceptionMapDenied(md) == "DENIED_SB_MOUNT"

\* lines 30 and 34: the map handed to check_conditions with each mode
ExceptionMap(md) ==
    IF md = "Denylist" THEN "DENIED_SB_MOUNT" ELSE "ALLOWED_SB_MOUNT"

\* (mutant) fail closed when no map holds the wildcard
NoPolicyDeny == "Deny"

\* line 37: no map holds the wildcard
NoPolicy == "Allow"

\* (mutant) the wildcard arm always denies
WildcardMatchDeny(md) == "Deny"

\* (mutant) the arms of the match on the wildcard are swapped
WildcardMatchSwapped(md) == IF md = "Allowlist" THEN "Deny" ELSE "Allow"

\* (mutant) the wildcard arm always allows
WildcardMatchAllow(md) == "Allow"

\* lines 59-62: the wildcard is in the map
WildcardMatch(md) == IF md = "Allowlist" THEN "Allow" ELSE "Deny"

\* (mutant) the arms of the match on the inode are swapped
InodeMatchSwapped(md) == IF md = "Allowlist" THEN "Deny" ELSE "Allow"

\* lines 66-69: binprm_inode is in the map
InodeMatch(md) == IF md = "Allowlist" THEN "Allow" ELSE "Deny"

\* (mutant) the default ignores the mode
NoMatchAllow(md) == "Allow"

\* lines 72-75: neither is in the map
NoMatch(md) == IF md = "Allowlist" THEN "Deny" ELSE "Allow"

\* (mutant) the arguments of SbMount::new are swapped
SbMountNewSwapped(pid, inode) == [pid |-> inode, binprm_inode |-> pid]

\* line 49: alerts::SbMount::new(ctx.pid(), binprm_inode)
SbMountNew(pid, inode) == [pid |-> pid, binprm_inode |-> inode]

\* (mutant) a record the perf buffer refused turns the denial into Allow
AfterOutputFailOpen(accepted) == IF accepted THEN "Deny" ELSE "Allow"

\* lines 49-50: what output returns is not looked at; the arm yields Deny
AfterOutput(accepted) == "Deny"

\* What sb_mount returns for subject s when the maps are A and D from its
\* first lookup to its last (lines 29-37 and 58-75 with nothing in between):
\* Deny exactly when A holds the wildcard and D holds the wildcard or s, or A
\* lacks the wildcard, D holds it and A does not hold s.
Reference(A, D, s) ==
    IF \/ (INODE_WILDCARD \in A /\ (INODE_WILDCARD \in D \/ s \in D))
       \/ (INODE_WILDCARD \notin A /\ INODE_WILDCARD \in D /\ s \notin A)
    THEN "Deny" ELSE "Allow"

\* Context c has made its first lookup and has not returned yet.
InCall(c) == pc[c] \in {"l33", "l58", "l65", "l49"}

\* The maps become A and D: the followed invocations that are between their
\* first lookup and their return take note of it.
Follow(A, D) ==
    /\ during' = [c \in Ctx |->
                    IF c \in tracked /\ InCall(c)
                    THEN during[c] \cup {Reference(A, D, binprm_inode[c])}
                    ELSE during[c]]
    /\ changed' = [c \in Ctx |-> changed[c] \/ (c \in tracked /\ InCall(c))]

\* Context c makes its first lookup: the maps as they are now are the first
\* that exist during its invocation.
FollowFirstLookup(c) ==
    /\ during' = [during EXCEPT ![c] =
                    IF c \in tracked
                    THEN {Reference(ALLOWED_SB_MOUNT, DENIED_SB_MOUNT, binprm_inode[c])}
                    ELSE @]
    /\ UNCHANGED changed

\* ------------------------------------------------------------------ Init
InitCommon ==
    /\ ALLOWED_SB_MOUNT = {}
    /\ DENIED_SB_MOUNT = {}
    /\ pc = [c \in Ctx |-> "idle"]
    /\ binprm_inode = [c \in Ctx |-> NoInode]
    /\ map = [c \in Ctx |-> NoValue]
    /\ mode = [c \in Ctx |-> NoValue]
    /\ result = [c \in Ctx |-> NoValue]
    /\ lookups = [c \in Ctx |-> <<>>]
    /\ alerts = [c \in Ctx |-> <<>>]
    /\ during = [c \in Ctx |-> {}]
    /\ changed = [c \in Ctx |-> FALSE]

Init == InitCommon /\ failuresLeft = 0 /\ tracked = {}

InitUnavailable == InitCommon /\ failuresLeft = MaxFailures /\ tracked = {}

InitObserved == InitCommon /\ failuresLeft = 0 /\ tracked = {1}

\* --------------------------------------------------------- control plane
\* One atomic single-entry insert into one map.
Insert(m, k) ==
    /\ k \notin Table(m)
    /\ LET A == IF m = "ALLOWED_SB_MOUNT"
                THEN ALLOWED_SB_MOUNT \cup {k} ELSE ALLOWED_SB_MOUNT
           D == IF m = "DENIED_SB_MOUNT"
                THEN DENIED_SB_MOUNT \cup {k} ELSE DENIED_SB_MOUNT
       IN /\ ALLOWED_SB_MOUNT' = A
          /\ DENIED_SB_MOUNT' = D
          /\ Follow(A, D)
    /\ UNCHANGED <<pc, binprm_inode, map, mode, result, lookups,
                   alerts, failuresLeft, tracked>>

\* One atomic single-entry remove from one map.
Remove(m, k) ==
    /\ k \in Table(m)
    /\ LET A == IF m = "ALLOWED_SB_MOUNT"
                THEN ALLOWED_SB_MOUNT \ {k} ELSE ALLOWED_SB_MOUNT
           D == IF m = "DENIED_SB_MOUNT"
                THEN DENIED_SB_MOUNT \ {k} ELSE DENIED_SB_MOUNT
       IN /\ ALLOWED_SB_MOUNT' = A
          /\ DENIED_SB_MOUNT' = D
          /\ Follow(A, D)
    /\ UNCHANGED <<pc, binprm_inode, map, mode, result, lookups,
                   alerts, failuresLeft, tracked>>

\* ---------------------------------------------------------------- sb_mount
\* (mutant) the error of current_binprm_inode() is swallowed: sb_mount goes on
\* to the lookups without an inode
sb_mount_entry_unchecked(c) ==
    /\ pc[c] = "idle"
    /\ \/ \E inode \in Inodes :
              /\ binprm_inode' = [binprm_inode EXCEPT ![c] = inode]
              /\ result' = [result EXCEPT ![c] = NoValue]
              /\ pc' = [pc EXCEPT ![c] = "l29"]
       \/ /\ binprm_inode' = [binprm_inode EXCEPT ![c] = NoInode]
          /\ result' = [result EXCEPT ![c] = NoValue]
          /\ pc' = [pc EXCEPT ![c] = "l29"]
    /\ UNCHANGED <<ALLOWED_SB_MOUNT, DENIED_SB_MOUNT, map, mode,
                   lookups, alerts, failuresLeft, tracked, during, changed>>

\* lines 26-27: the hook fires; current_binprm_inode()? gives the inode or
\* makes sb_mount return the error.
sb_mount_entry(c) ==
    /\ pc[c] = "idle"
    /\ \/ \E inode \in Inodes :
              /\ binprm_inode' = [binprm_inode EXCEPT ![c] = inode]
              /\ result' = [result EXCEPT ![c] = NoValue]
              /\ pc' = [pc EXCEPT ![c] = "l29"]
       \/ /\ binprm_inode' = [binprm_inode EXCEPT ![c] = NoInode]
          /\ result' = [result EXCEPT ![c] = "Err"]
          /\ pc' = [pc EXCEPT ![c] = "returned"]
    /\ UNCHANGED <<ALLOWED_SB_MOUNT, DENIED_SB_MOUNT, map, mode,
                   lookups, alerts, failuresLeft, tracked, during, changed>>

\* (mutant) a lookup that cannot be completed makes sb_mount return an error
sb_mount_allowed_wildcard_failing(c) ==
    /\ pc[c] = "l29"
    /\ \E g \in get("ALLOWED_SB_MOUNT", INODE_WILDCARD) :
         /\ lookups' = [lookups EXCEPT ![c] =
                          Append(@, Lookup(29, "ALLOWED_SB_MOUNT", INODE_WILDCARD, g))]
         /\ failuresLeft' = IF g.completed THEN failuresLeft ELSE failuresLeft - 1
         /\ IF ~g.completed
            THEN /\ pc' = [pc EXCEPT ![c] = "returned"]
                 /\ result' = [result EXCEPT ![c] = "Err"]
                 /\ UNCHANGED <<map, mode>>
            ELSE /\ UNCHANGED result
                 /\ IF g.found
                    THEN /\ map' = [map EXCEPT ![c] = "DENIED_SB_MOUNT"]
                         /\ mode' = [mode EXCEPT ![c] = "Denylist"]
                         /\ pc' = [pc EXCEPT ![c] = "l58"]
                    ELSE /\ pc' = [pc EXCEPT ![c] = "l33"]
                         /\ UNCHANGED <<map, mode>>
    /\ FollowFirstLookup(c)
    /\ UNCHANGED <<ALLOWED_SB_MOUNT, DENIED_SB_MOUNT, binprm_inode, alerts, tracked>>

\* lines 29-31: ALLOWED_SB_MOUNT.get(&INODE_WILDCARD).is_some()
sb_mount_allowed_wildcard(c) ==
    /\ pc[c] = "l29"
    /\ \E g \in get("ALLOWED_SB_MOUNT", INODE_WILDCARD) :
         /\ lookups' = [lookups EXCEPT ![c] =
                          Append(@, Lookup(29, "ALLOWED_SB_MOUNT", INODE_WILDCARD, g))]
         /\ failuresLeft' = IF g.completed THEN failuresLeft ELSE failuresLeft - 1
         /\ IF g.found
            THEN /\ map' = [map EXCEPT ![c] = ExceptionMap("Denylist")]
                 /\ mode' = [mode EXCEPT ![c] = "Denylist"]
                 /\ pc' = [pc EXCEPT ![c] = "l58"]
            ELSE /\ pc' = [pc EXCEPT ![c] = "l33"]
                 /\ UNCHANGED <<map, mode>>
    /\ FollowFirstLookup(c)
    /\ UNCHANGED <<ALLOWED_SB_MOUNT, DENIED_SB_MOUNT, binprm_inode,
                   result, alerts, tracked>>

\* lines 33-37: DENIED_SB_MOUNT.get(&INODE_WILDCARD).is_some(), else Ok(Allow)
sb_mount_denied_wildcard(c) ==
    /\ pc[c] = "l33"
    /\ \E g \in get("DENIED_SB_MOUNT", INODE_WILDCARD) :
         /\ lookups' = [lookups EXCEPT ![c] =
                          Append(@, Lookup(33, "DENIED_SB_MOUNT", INODE_WILDCARD, g))]
         /\ failuresLeft' = IF g.completed THEN failuresLeft ELSE failuresLeft - 1
         /\ IF g.found
            THEN /\ map' = [map EXCEPT ![c] = ExceptionMap("Allowlist")]
                 /\ mode' = [mode EXCEPT ![c] = "Allowlist"]
                 /\ pc' = [pc EXCEPT ![c] = "l58"]
                 /\ UNCHANGED result
            ELSE /\ pc' = [pc EXCEPT ![c] = "returned"]
                 /\ result' = [result EXCEPT ![c] = NoPolicy]
                 /\ UNCHANGED <<map, mode>>
    /\ UNCHANGED <<ALLOWED_SB_MOUNT, DENIED_SB_MOUNT, binprm_inode,
                   alerts, tracked, during, changed>>

\* (mutant) a subject already reported by another context is not reported
\* again, and the arm that skips the report yields Allow
MatchedOncePerInode(c, action) ==
    IF /\ action = "Deny"
       /\ ~ \E d \in Ctx \ {c} : /\ alerts[d] # <<>>
                                  /\ alerts[d][1].record.binprm_inode = binprm_inode[c]
    THEN /\ pc' = [pc EXCEPT ![c] = "l49"]
         /\ UNCHANGED result
    ELSE /\ pc' = [pc EXCEPT ![c] = "returned"]
         /\ result' = [result EXCEPT ![c] = "Allow"]

\* lines 47-53: the match on what check_conditions returned.  Deny goes on to
\* the output of line 49; any other action is returned as it is.
Matched(c, action) ==
    IF action = "Deny"
    THEN /\ pc' = [pc EXCEPT ![c] = "l49"]
         /\ UNCHANGED result
    ELSE /\ pc' = [pc EXCEPT ![c] = "returned"]
         /\ result' = [result EXCEPT ![c] = action]

\* (mutant) the exception table is read under a lock: the lookup waits while
\* another context is inside check_conditions
check_conditions_wildcard_locked(c) ==
    /\ pc[c] = "l58"
    /\ \A d \in Ctx \ {c} : pc[d] # "l65"
    /\ \E g \in get(map[c], INODE_WILDCARD) :
         /\ lookups' = [lookups EXCEPT ![c] =
                          Append(@, Lookup(58, map[c], INODE_WILDCARD, g))]
         /\ failuresLeft' = IF g.completed THEN failuresLeft ELSE failuresLeft - 1
         /\ IF g.found
            THEN Matched(c, WildcardMatch(mode[c]))
            ELSE /\ pc' = [pc EXCEPT ![c] = "l65"]
                 /\ UNCHANGED result
    /\ UNCHANGED <<ALLOWED_SB_MOUNT, DENIED_SB_MOUNT, binprm_inode,
                   map, mode, alerts, tracked, during, changed>>

\* lines 58-63: map.get(&INODE_WILDCARD).is_some()
check_conditions_wildcard(c) ==
    /\ pc[c] = "l58"
    /\ \E g \in get(map[c], INODE_WILDCARD) :
         /\ lookups' = [lookups EXCEPT ![c] =
                          Append(@, Lookup(58, map[c], INODE_WILDCARD, g))]
         /\ failuresLeft' = IF g.completed THEN failuresLeft ELSE failuresLeft - 1
         /\ IF g.found
            THEN Matched(c, WildcardMatch(mode[c]))
            ELSE /\ pc' = [pc EXCEPT ![c] = "l65"]
                 /\ UNCHANGED result
    /\ UNCHANGED <<ALLOWED_SB_MOUNT, DENIED_SB_MOUNT, binprm_inode,
                   map, mode, alerts, tracked, during, changed>>

\* (mutant) the lookup of the inode adds the inode to the map when it is absent
check_conditions_inode_inserting(c) ==
    /\ pc[c] = "l65"
    /\ \E g \in get(map[c], binprm_inode[c]) :
         /\ lookups' = [lookups EXCEPT ![c] =
                          Append(@, Lookup(65, map[c], binprm_inode[c], g))]
         /\ failuresLeft' = IF g.completed THEN failuresLeft ELSE failuresLeft - 1
         /\ IF g.found
            THEN Matched(c, InodeMatch(mode[c]))
            ELSE Matched(c, NoMatch(mode[c]))
    /\ ALLOWED_SB_MOUNT' = IF map[c] = "ALLOWED_SB_MOUNT"
                           THEN ALLOWED_SB_MOUNT \cup {binprm_inode[c]}
                           ELSE ALLOWED_SB_MOUNT
    /\ DENIED_SB_MOUNT' = IF map[c] = "DENIED_SB_MOUNT"
                          THEN DENIED_SB_MOUNT \cup {binprm_inode[c]}
                          ELSE DENIED_SB_MOUNT
    /\ UNCHANGED <<binprm_inode, map, mode, alerts, tracked, during, changed>>

\* lines 65-75: map.get(&binprm_inode).is_some(), else the default of the mode
check_conditions_inode(c) ==
    /\ pc[c] = "l65"
    /\ \E g \in get(map[c], binprm_inode[c]) :
         /\ lookups' = [lookups EXCEPT ![c] =
                          Append(@, Lookup(65, map[c], binprm_inode[c], g))]
         /\ failuresLeft' = IF g.completed THEN failuresLeft ELSE failuresLeft - 1
         /\ IF g.found
            THEN Matched(c, InodeMatch(mode[c]))
            ELSE Matched(c, NoMatch(mode[c]))
    /\ UNCHANGED <<ALLOWED_SB_MOUNT, DENIED_SB_MOUNT, binprm_inode,
                   map, mode, alerts, tracked, during, changed>>

\* lines 48-51: ALERT_SB_MOUNT.output(ctx, &SbMount::new(ctx.pid(), binprm_inode), 0)
\* whose outcome is dropped, then Action::Deny is returned.
check_conditions_and_alert_deny(c) ==
    /\ pc[c] = "l49"
    /\ \E accepted \in BOOLEAN :
         LET rec == SbMountNew(c, binprm_inode[c]) IN
         /\ alerts' = [alerts EXCEPT ![c] = Append(@, [record |-> rec, accepted |-> accepted])]
         /\ result' = [result EXCEPT ![c] = AfterOutput(accepted)]
    /\ pc' = [pc EXCEPT ![c] = "returned"]
    /\ UNCHANGED <<ALLOWED_SB_MOUNT, DENIED_SB_MOUNT, binprm_inode, map, mode,
                   lookups, failuresLeft, tracked, during, changed>>

\* The caller has taken what sb_mount returned; the context is free again.
sb_mount_exit(c) ==
    /\ pc[c] = "returned"
    /\ pc' = [pc EXCEPT ![c] = "idle"]
    /\ binprm_inode' = [binprm_inode EXCEPT ![c] = NoInode]
    /\ map' = [map EXCEPT ![c] = NoValue]
    /\ mode' = [mode EXCEPT ![c] = NoValue]
    /\ result' = [result EXCEPT ![c] = NoValue]
    /\ lookups' = [lookups EXCEPT ![c] = <<>>]
    /\ alerts' = [alerts EXCEPT ![c] = <<>>]
    /\ during' = [during EXCEPT ![c] = {}]
    /\ changed' = [changed EXCEPT ![c] = FALSE]
    /\ UNCHANGED <<ALLOWED_SB_MOUNT, DENIED_SB_MOUNT, failuresLeft, tracked>>

\* A control-plane update made while no invocation is running or waiting
\* to be read: the maps are the same from entry to exit of every invocation.
Quiescent == \A c \in Ctx : pc[c] = "idle"

InsertBetweenCalls(m, k) == Quiescent /\ Insert(m, k)

RemoveBetweenCalls(m, k) == Quiescent /\ Remove(m, k)

\* ------------------------------------------------------------------ Next
\* A step of the invocation of context c after its entry.
Step(c) ==
    \/ sb_mount_allowed_wildcard(c)
    \/ sb_mount_denied_wildcard(c)
    \/ check_conditions_wildcard(c)
    \/ check_conditions_inode(c)
    \/ check_conditions_and_alert_deny(c)

Next ==
    \/ \E m \in MapNames, k \in Keys : Insert(m, k)
    \/ \E m \in MapNames, k \in Keys : Remove(m, k)
    \/ \E c \in Ctx : sb_mount_entry(c)
    \/ \E c \in Ctx : sb_mount_allowed_wildcard(c)
    \/ \E c \in Ctx : sb_mount_denied_wildcard(c)
    \/ \E c \in Ctx : check_conditions_wildcard(c)
    \/ \E c \in Ctx : check_conditions_inode(c)
    \/ \E c \in Ctx : check_conditions_and_alert_deny(c)
    \/ \E c \in Ctx : sb_mount_exit(c)

NextStatic ==
    \/ \E m \in MapNames, k \in Keys : InsertBetweenCalls(m, k)
    \/ \E m \in MapNames, k \in Keys : RemoveBetweenCalls(m, k)
    \/ \E c \in Ctx : sb_mount_entry(c)
    \/ \E c \in Ctx : sb_mount_allowed_wildcard(c)
    \/ \E c \in Ctx : sb_mount_denied_wildcard(c)
    \/ \E c \in Ctx : check_conditions_wildcard(c)
    \/ \E c \in Ctx : check_conditions_inode(c)
    \/ \E c \in Ctx : check_conditions_and_alert_deny(c)
    \/ \E c \in Ctx : sb_mount_exit(c)

\* The followed contexts only run, concurrently with the control plane.
NextObserved ==
    \/ \E m \in MapNames, k \in Keys : Insert(m, k)
    \/ \E m \in MapNames, k \in Keys : Remove(m, k)
    \/ \E c \in tracked : sb_mount_entry(c)
    \/ \E c \in tracked : sb_mount_allowed_wildcard(c)
    \/ \E c \in tracked : sb_mount_denied_wildcard(c)
    \/ \E c \in tracked : check_conditions_wildcard(c)
    \/ \E c \in tracked : check_conditions_inode(c)
    \/ \E c \in tracked : check_conditions_and_alert_deny(c)
    \/ \E c \in tracked : sb_mount_exit(c)

\* Invocations concurrent with each other and with the control plane.
Spec == Init /\ [][Next]_vars

\* Invocations concurrent with each other; the maps change between calls only.
SpecStatic == Init /\ [][NextStatic]_vars

\* One invocation at a time, followed against every map content that exists
\* between its first lookup and its return, concurrent with the control plane.
SpecObserved == InitObserved /\ [][NextObserved]_vars

\* As SpecStatic, with up to MaxFailures lookups that cannot be completed.
SpecUnavailable == InitUnavailable /\ [][NextStatic]_vars

TypeOK ==
    /\ ALLOWED_SB_MOUNT \subseteq Keys
    /\ DENIED_SB_MOUNT \subseteq Keys
    /\ pc \in [Ctx -> {"idle", "l29", "l33", "l58", "l65", "l49", "returned"}]
    /\ binprm_inode \in [Ctx -> Inodes \cup {NoInode}]
    /\ map \in [Ctx -> MapNames \cup {NoValue}]
    /\ mode \in [Ctx -> Mode \cup {NoValue}]
    /\ result \in [Ctx -> Action \cup {"Err", NoValue}]
    /\ failuresLeft \in 0 .. MaxFailures
    /\ tracked \subseteq Ctx
    /\ during \in [Ctx -> SUBSET Action]
    /\ changed \in [Ctx -> BOOLEAN]

\* ==================================================================== claims
\* Context c has returned Ok(action): the subject id was obtained.
Decided(c) == pc[c] = "returned" /\ result[c] \in Action

NoAlert(c) == alerts[c] = <<>>

\* The one record an invocation of context c has to submit when it denies.
OwnRecord(c) == [pid |-> c, binprm_inode |-> binprm_inode[c]]

OneOwnAlert(c) == Len(alerts[c]) = 1 /\ alerts[c][1].record = OwnRecord(c)

\* C1 (SpecStatic) Unrestricted baseline: when neither map holds the wildcard
\* and the maps do not change during the call, sb_mount returns Allow for
\* every subject, whatever specific entries the maps hold, and submits no alert.
C1_UnrestrictedBaseline ==
    \A c \in Ctx :
        ( /\ Decided(c)
          /\ INODE_WILDCARD \notin ALLOWED_SB_MOUNT
          /\ INODE_WILDCARD \notin DENIED_SB_MOUNT )
        => (result[c] = "Allow" /\ NoAlert(c))

\* A subject named in the deny map (and another named in both maps) was allowed.
C1_Witness ==
    /\ INODE_WILDCARD \notin ALLOWED_SB_MOUNT \cup DENIED_SB_MOUNT
    /\ \E c \in Ctx :
         /\ Decided(c) /\ result[c] = "Allow"
         /\ binprm_inode[c] \in DENIED_SB_MOUNT
         /\ binprm_inode[c] \notin ALLOWED_SB_MOUNT
    /\ ALLOWED_SB_MOUNT # {}

\* C2 (SpecStatic) Denylist carve-out: with the wildcard in the allow map and
\* the deny map holding exactly one subject s0 and no wildcard, s0 is denied
\* and every other subject is allowed.
C2_DenylistCarveOut ==
    \A c \in Ctx :
        ( /\ Decided(c)
          /\ INODE_WILDCARD \in ALLOWED_SB_MOUNT
          /\ INODE_WILDCARD \notin DENIED_SB_MOUNT
          /\ Cardinality(DENIED_SB_MOUNT) = 1 )
        => result[c] = (IF binprm_inode[c] \in DENIED_SB_MOUNT THEN "Deny" ELSE "Allow")

\* In one state s0 has been denied and another subject allowed.
C2_Witness ==
    /\ INODE_WILDCARD \in ALLOWED_SB_MOUNT
    /\ INODE_WILDCARD \notin DENIED_SB_MOUNT
    /\ Cardinality(DENIED_SB_MOUNT) = 1
    /\ \E c1, c2 \in Ctx :
         /\ Decided(c1) /\ binprm_inode[c1] \in DENIED_SB_MOUNT /\ result[c1] = "Deny"
         /\ Decided(c2) /\ binprm_inode[c2] \notin DENIED_SB_MOUNT /\ result[c2] = "Allow"

\* C3 (SpecStatic) Allowlist carve-out: with the wildcard in the deny map and
\* the allow map holding exactly one subject s0 and no wildcard, s0 is allowed
\* and every other subject is denied.
C3_AllowlistCarveOut ==
    \A c \in Ctx :
        ( /\ Decided(c)
          /\ INODE_WILDCARD \in DENIED_SB_MOUNT
          /\ INODE_WILDCARD \notin ALLOWED_SB_MOUNT
          /\ Cardinality(ALLOWED_SB_MOUNT) = 1 )
        => result[c] = (IF binprm_inode[c] \in ALLOWED_SB_MOUNT THEN "Allow" ELSE "Deny")

\* In one state s0 has been allowed and another subject denied.
C3_Witness ==
    /\ INODE_WILDCARD \in DENIED_SB_MOUNT
    /\ INODE_WILDCARD \notin ALLOWED_SB_MOUNT
    /\ Cardinality(ALLOWED_SB_MOUNT) = 1
    /\ \E c1, c2 \in Ctx :
         /\ Decided(c1) /\ binprm_inode[c1] \in ALLOWED_SB_MOUNT /\ result[c1] = "Allow"
         /\ Decided(c2) /\ binprm_inode[c2] \notin ALLOWED_SB_MOUNT /\ result[c2] = "Deny"

\* C4 (SpecStatic) Both wildcards: with the wildcard in both maps every
\* subject is denied, whatever other entries the maps hold.
C4_BothWildcards ==
    \A c \in Ctx :
        ( /\ Decided(c)
          /\ INODE_WILDCARD \in ALLOWED_SB_MOUNT
          /\ INODE_WILDCARD \in DENIED_SB_MOUNT )
        => result[c] = "Deny"

\* A subject named in the allow map only was denied under both wildcards.
C4_Witness ==
    /\ INODE_WILDCARD \in ALLOWED_SB_MOUNT
    /\ INODE_WILDCARD \in DENIED_SB_MOUNT
    /\ \E c \in Ctx :
         /\ Decided(c) /\ result[c] = "Deny"
         /\ binprm_inode[c] \in ALLOWED_SB_MOUNT
         /\ binprm_inode[c] \notin DENIED_SB_MOUNT

\* C5 (Spec) Alert exactly on denial, under every interleaving: an invocation
\* that has returned Deny has submitted exactly one record, carrying its own
\* subject id and pid; an invocation that has returned anything else has
\* submitted none; and a record is submitted in exactly the steps in which an
\* invocation returns Deny, so that the records submitted and the Deny
\* decisions made are always equally many.
C5_AlertExactlyOnDenial ==
    /\ [](\A c \in Ctx :
            pc[c] = "returned" =>
                IF result[c] = "Deny" THEN OneOwnAlert(c) ELSE NoAlert(c))
    /\ [][\A c \in Ctx :
            (Len(alerts'[c]) = Len(alerts[c]) + 1)
            <=> (pc[c] # "returned" /\ pc'[c] = "returned" /\ result'[c] = "Deny")]_vars

\* Two invocations of the same subject are back, one with Deny and its record,
\* the other with Allow and no record.
C5_Witness ==
    \E c1, c2 \in Ctx :
        /\ pc[c1] = "returned" /\ result[c1] = "Deny" /\ OneOwnAlert(c1)
        /\ pc[c2] = "returned" /\ result[c2] = "Allow" /\ NoAlert(c2)
        /\ binprm_inode[c1] = binprm_inode[c2]

\* The scenario of C6: the allow map is empty and the deny map is {wildcard, 5}.
C6_Scenario == ALLOWED_SB_MOUNT = {} /\ DENIED_SB_MOUNT = {INODE_WILDCARD, 5}

\* C6 as stated: in the scenario evaluate(5, pid=1) returns Allow and
\* evaluate(6, pid=2) returns Deny with an alert for subject 6.
C6_Original ==
    C6_Scenario =>
        /\ (Decided(1) /\ binprm_inode[1] = 5) => result[1] = "Allow"
        /\ (Decided(2) /\ binprm_inode[2] = 6) => (result[2] = "Deny" /\ OneOwnAlert(2))

\* C6 (SpecStatic) as amended: in the scenario evaluate(5, pid=1) returns Deny
\* with an alert for subject 5 and pid 1 (the entry 5 of the deny map is not
\* consulted in Allowlist mode), and evaluate(6, pid=2) returns Deny with an
\* alert for subject 6 and pid 2.
C6_Amended ==
    C6_Scenario =>
        /\ (Decided(1) /\ binprm_inode[1] = 5) =>
               (result[1] = "Deny" /\ alerts[1][1].record = [pid |-> 1, binprm_inode |-> 5]
                /\ Len(alerts[1]) = 1)
        /\ (Decided(2) /\ binprm_inode[2] = 6) =>
               (result[2] = "Deny" /\ alerts[2][1].record = [pid |-> 2, binprm_inode |-> 6]
                /\ Len(alerts[2]) = 1)

\* Both evaluations of the scenario have returned.
C6_Witness ==
    /\ C6_Scenario
    /\ Decided(1) /\ binprm_inode[1] = 5
    /\ Decided(2) /\ binprm_inode[2] = 6

\* What an invocation observed of the maps: its lookups without the mark
\* of whether the helper completed.
Observed(c) ==
    [i \in 1 .. Len(lookups[c]) |->
        [line |-> lookups[c][i].line, map |-> lookups[c][i].map,
         key |-> lookups[c][i].key, found |-> lookups[c][i].found]]

\* C7 (Spec) Alert submission failure is absorbed: an invocation that has
\* submitted a record has returned Deny whether the record was accepted or
\* not, never Allow or an error, and two invocations that observed the same
\* of the maps returned the same, whatever became of their records.
C7_AlertFailureAbsorbed ==
    /\ \A c \in Ctx : (pc[c] = "returned" /\ alerts[c] # <<>>) => result[c] = "Deny"
    /\ \A c1, c2 \in Ctx :
         (pc[c1] = "returned" /\ pc[c2] = "returned" /\ Observed(c1) = Observed(c2)
          /\ binprm_inode[c1] = binprm_inode[c2])
         => result[c1] = result[c2]

\* Two invocations observed the same; the record of one was accepted, that of
\* the other refused; both returned Deny.
C7_Witness ==
    \E c1, c2 \in Ctx :
        /\ pc[c1] = "returned" /\ pc[c2] = "returned"
        /\ Observed(c1) = Observed(c2)
        /\ Len(alerts[c1]) = 1 /\ alerts[c1][1].accepted
        /\ Len(alerts[c2]) = 1 /\ ~alerts[c2][1].accepted
        /\ result[c1] = "Deny" /\ result[c2] = "Deny"

\* C8 (Spec) The core is read-only on policy: a step of an invocation (a step
\* that moves some context) leaves both maps as they are; the maps change in
\* control-plane steps only.
C8_ReadOnlyOnPolicy ==
    [][(\E c \in Ctx : pc'[c] # pc[c])
       => (ALLOWED_SB_MOUNT' = ALLOWED_SB_MOUNT /\ DENIED_SB_MOUNT' = DENIED_SB_MOUNT)]_vars

\* An invocation went through all four lookups, over both maps, missed its
\* inode in the allow map, and the maps still hold what they held.
C8_Witness ==
    \E c \in Ctx :
        /\ pc[c] = "returned"
        /\ Len(lookups[c]) = 4
        /\ ~lookups[c][4].found
        /\ binprm_inode[c] \notin ALLOWED_SB_MOUNT
        /\ DENIED_SB_MOUNT # {}

\* C9 (SpecStatic) Purity: two evaluations of the same subject made while the
\* maps are unchanged return the same decision, whatever their pids, whatever
\* was evaluated before and whatever alerts were submitted.
C9_Purity ==
    \A c1, c2 \in Ctx :
        (Decided(c1) /\ Decided(c2) /\ binprm_inode[c1] = binprm_inode[c2])
        => result[c1] = result[c2]

\* Two contexts with different pids evaluated the same subject; both were
\* denied, and the record of one was accepted before or while the other ran.
C9_Witness ==
    \E c1, c2 \in Ctx :
        /\ c1 # c2
        /\ Decided(c1) /\ Decided(c2)
        /\ binprm_inode[c1] = binprm_inode[c2]
        /\ result[c1] = "Deny" /\ result[c2] = "Deny"
        /\ alerts[c1][1].accepted

\* Some lookup of the invocation of context c could not be completed.
Incomplete(c) == \E i \in 1 .. Len(lookups[c]) : ~lookups[c][i].completed

\* C10 as stated: an invocation one of whose lookups could not be completed
\* returns a failure instead of Allow or Deny.
C10_Original ==
    \A c \in Ctx : (pc[c] = "returned" /\ Incomplete(c)) => result[c] = "Err"

\* C10 (SpecUnavailable) as amended: a lookup that cannot be completed is not
\* retried (no line looks up twice in one invocation) and does not make
\* sb_mount fail: the invocation returns Allow or Deny, the same as an
\* invocation that found the key absent there and observed the same otherwise.
C10_Amended ==
    /\ \A c \in Ctx : \A i, j \in 1 .. Len(lookups[c]) :
         i < j => lookups[c][i].line < lookups[c][j].line
    /\ \A c \in Ctx : (pc[c] = "returned" /\ Incomplete(c)) => result[c] \in Action
    /\ \A c1, c2 \in Ctx :
         (pc[c1] = "returned" /\ pc[c2] = "returned" /\ Incomplete(c1)
          /\ Observed(c1) = Observed(c2))
         => result[c1] = result[c2]

\* A lookup could not be completed for one invocation and found the key
\* absent for another that observed the same; both have returned a decision.
C10_Witness ==
    \E c1, c2 \in Ctx :
        /\ pc[c1] = "returned" /\ pc[c2] = "returned"
        /\ Incomplete(c1) /\ ~Incomplete(c2)
        /\ Observed(c1) = Observed(c2)
        /\ result[c1] \in Action

\* C11 (SpecStatic) Reference decision function: with the maps unchanged
\* during the call, sb_mount returns for every map contents and subject what
\* the reference function gives; specific allow entries have no effect while
\* the allow map holds the wildcard, specific deny entries none while it lacks it.
C11_ReferenceDecision ==
    \A c \in Ctx :
        Decided(c) =>
            result[c] = Reference(ALLOWED_SB_MOUNT, DENIED_SB_MOUNT, binprm_inode[c])

\* Under the allow wildcard a subject named in both maps is denied and one
\* named in the allow map only is allowed; or, under the deny wildcard, a
\* subject named in both maps is allowed and one named in the deny map only
\* is denied.
C11_Witness ==
    \/ \E c \in Ctx :
         /\ Decided(c) /\ result[c] = "Deny"
         /\ INODE_WILDCARD \in ALLOWED_SB_MOUNT /\ INODE_WILDCARD \notin DENIED_SB_MOUNT
         /\ binprm_inode[c] \in ALLOWED_SB_MOUNT \cap DENIED_SB_MOUNT
         /\ \E d \in Ctx : /\ Decided(d) /\ result[d] = "Allow"
                            /\ binprm_inode[d] \in ALLOWED_SB_MOUNT \ DENIED_SB_MOUNT
    \/ \E c \in Ctx :
         /\ Decided(c) /\ result[c] = "Allow"
         /\ INODE_WILDCARD \notin ALLOWED_SB_MOUNT /\ INODE_WILDCARD \in DENIED_SB_MOUNT
         /\ binprm_inode[c] \in ALLOWED_SB_MOUNT \cap DENIED_SB_MOUNT
         /\ \E d \in Ctx : /\ Decided(d) /\ result[d] = "Deny"
                            /\ binprm_inode[d] \in DENIED_SB_MOUNT \ ALLOWED_SB_MOUNT

\* The invocation of context c returned a decision that none of the map
\* contents that existed between its first lookup and its return gives.
Torn(c) == Decided(c) /\ result[c] \notin during[c]

\* C12 (SpecObserved) Torn reads are reachable (C12_Witness is such a state)
\* and come from the control plane only: an invocation returns a decision
\* that none of the map contents between its first lookup and its return
\* gives only if a map changed between them; and whatever the control plane
\* does, an invocation that has not returned can take its next step.
C12_TornReads ==
    \A c \in tracked :
        /\ Torn(c) => changed[c]
        /\ pc[c] \in {"l29", "l33", "l58", "l65", "l49"} => ENABLED Step(c)

\* An invocation has returned Deny for a subject that every map content
\* between its first lookup and its return allows.
C12_Witness ==
    \E c \in tracked :
        /\ Torn(c)
        /\ result[c] = "Deny"
        /\ during[c] = {"Allow"}
        /\ Len(alerts[c]) = 1

\* The invocation of context c, in Allowlist mode, found the wildcard in its
\* exception table, the allow map (line 58).
AllowlistWildcardHit(c) ==
    \E i \in 1 .. Len(lookups[c]) :
        /\ lookups[c][i].line = 58
        /\ lookups[c][i].map = "ALLOWED_SB_MOUNT"
        /\ lookups[c][i].found

\* C13 as stated: in every execution an invocation in Allowlist mode never
\* observes the wildcard in the allow map, so none returns Allow through the
\* wildcard branch in Allowlist mode.
C13_Original == \A c \in Ctx : ~AllowlistWildcardHit(c)

\* C13 (SpecObserved) as amended: an invocation in Allowlist mode observes the
\* wildcard in the allow map only if a map changed after its lookup of line
\* 29 (the control plane inserted the wildcard in between), never while the
\* maps are unchanged during the call; when it does, it returns Allow through
\* the wildcard branch and submits no alert.
C13_Amended ==
    \A c \in tracked :
        AllowlistWildcardHit(c) =>
            /\ changed[c]
            /\ mode[c] = "Allowlist"
            /\ ~lookups[c][1].found
            /\ pc[c] = "returned" /\ result[c] = "Allow" /\ NoAlert(c)

\* An invocation returned Allow through the wildcard branch in Allowlist mode
\* although every map content between its first lookup and its return denies
\* its subject.
C13_Witness ==
    \E c \in tracked :
        /\ AllowlistWildcardHit(c)
        /\ pc[c] = "returned" /\ result[c] = "Allow"
        /\ during[c] = {"Deny"}

\* The lookup i of context c was made by the given line, of the wildcard in
\* the given map, and found it or not as given.
SawWildcard(c, i, line, m, found) ==
    /\ Len(lookups[c]) >= i
    /\ lookups[c][i].line = line
    /\ lookups[c][i].map = m
    /\ lookups[c][i].key = INODE_WILDCARD
    /\ lookups[c][i].found = found

\* C14 (Spec) Mode is resolved once per decision and paired with its table:
\* an invocation that is in or past check_conditions holds (Denylist, deny
\* map), chosen after line 29 found the wildcard in the allow map, or
\* (Allowlist, allow map), chosen after line 29 missed it there and line 33
\* found it in the deny map; one that took the Unrestricted path holds no
\* pair; and the pair stays as chosen until the invocation is over, whatever
\* the control plane does to the wildcards afterwards.
C14_ModeResolvedOnce ==
    /\ [](\A c \in Ctx :
            /\ pc[c] \in {"l58", "l65", "l49"} => mode[c] \in Mode
            /\ (pc[c] = "returned" /\ lookups[c] # <<>>) =>
                   IF lookups[c][Len(lookups[c])].line = 33
                   THEN mode[c] = NoValue /\ map[c] = NoValue
                   ELSE mode[c] \in Mode
            /\ mode[c] = "Denylist" =>
                   /\ map[c] = "DENIED_SB_MOUNT"
                   /\ SawWildcard(c, 1, 29, "ALLOWED_SB_MOUNT", TRUE)
            /\ mode[c] = "Allowlist" =>
                   /\ map[c] = "ALLOWED_SB_MOUNT"
                   /\ SawWildcard(c, 1, 29, "ALLOWED_SB_MOUNT", FALSE)
                   /\ SawWildcard(c, 2, 33, "DENIED_SB_MOUNT", TRUE))
    /\ [][\A c \in Ctx :
            (mode[c] \in Mode /\ pc'[c] # "idle")
            => (mode'[c] = mode[c] /\ map'[c] = map[c])]_vars

\* An invocation chose (Allowlist, allow map) and finished its lookups with
\* that pair although the control plane has since put the wildcard into the
\* allow map and taken it out of the deny map.
C14_Witness ==
    \E c \in Ctx :
        /\ pc[c] = "returned"
        /\ mode[c] = "Allowlist" /\ map[c] = "ALLOWED_SB_MOUNT"
        /\ Len(lookups[c]) = 4
        /\ INODE_WILDCARD \in ALLOWED_SB_MOUNT
        /\ INODE_WILDCARD \notin DENIED_SB_MOUNT

\* The lookups of context c so far are a single pass: each line of sb_mount
\* and check_conditions that looks up has done so at most once, in the order
\* of the code, with the key and the map the code gives it.
SinglePass(c) ==
    /\ Len(lookups[c]) <= 4
    /\ \A i, j \in 1 .. Len(lookups[c]) :
         i < j => lookups[c][i].line < lookups[c][j].line
    /\ \A i \in 1 .. Len(lookups[c]) :
         LET l == lookups[c][i] IN
         \/ l.line = 29 /\ l.map = "ALLOWED_SB_MOUNT" /\ l.key = INODE_WILDCARD
         \/ l.line = 33 /\ l.map = "DENIED_SB_MOUNT" /\ l.key = INODE_WILDCARD
         \/ l.line = 58 /\ l.map = map[c] /\ l.key = INODE_WILDCARD
         \/ l.line = 65 /\ l.map = map[c] /\ l.key = binprm_inode[c]

\* How far an invocation is: the places of sb_mount in the order of the code.
Progress(p) ==
    CASE p = "idle" -> 0
      [] p = "l29" -> 1
      [] p = "l33" -> 2
      [] p = "l58" -> 3
      [] p = "l65" -> 4
      [] p = "l49" -> 5
      [] p = "returned" -> 6

Running(c) == pc[c] \in {"l29", "l33", "l58", "l65", "l49"}

\* C15 (Spec) Bounded, non-blocking evaluation, under every interleaving: in
\* every state an invocation that has not returned can take its next step,
\* whatever the control plane and the other invocations have done; every
\* step it takes moves it forward in the code and nothing moves it back, so
\* that it returns after at most five steps; its lookups are a single pass of
\* at most four (lines 29 and 33 for the mode, lines 58 and 65 on the
\* exception table), no line looking up twice; and it submits at most one alert.
C15_BoundedNonBlocking ==
    /\ [](\A c \in Ctx :
            /\ Running(c) => ENABLED Step(c)
            /\ SinglePass(c)
            /\ Len(lookups[c]) <= Progress(pc[c])
            /\ Len(alerts[c]) <= 1)
    /\ [][\A c \in Ctx :
            (Running(c) /\ pc'[c] # pc[c]) => Progress(pc'[c]) > Progress(pc[c])]_vars

\* An invocation has returned after four lookups and one alert while the
\* other invocation is in the middle of check_conditions and the maps are
\* no longer what the first lookup saw.
C15_Witness ==
    \E c, d \in Ctx :
        /\ pc[c] = "returned" /\ Len(lookups[c]) = 4 /\ Len(alerts[c]) = 1
        /\ pc[d] = "l65"
        /\ INODE_WILDCARD \notin DENIED_SB_MOUNT

\* C16 (Spec) Identity-resolution failure short-circuits: an invocation whose
\* current_binprm_inode() failed has returned the error, has looked up no
\* table and has submitted no alert; an invocation that obtained its inode
\* never holds an error, and when it has returned its result is Allow or Deny.
C16_IdentityFailureShortCircuits ==
    \A c \in Ctx :
        /\ result[c] = "Err" =>
               /\ pc[c] = "returned"
               /\ binprm_inode[c] = NoInode
               /\ lookups[c] = <<>>
               /\ alerts[c] = <<>>
        /\ (pc[c] # "idle" /\ binprm_inode[c] = NoInode) => result[c] = "Err"
        /\ (pc[c] # "idle" /\ binprm_inode[c] # NoInode) =>
               /\ binprm_inode[c] \in Inodes
               /\ result[c] # "Err"
               /\ pc[c] = "returned" => result[c] \in Action

\* One invocation has returned the error while the tables deny every inode,
\* and the other invocation, with an inode, has been denied with an alert.
C16_Witness ==
    \E c, d \in Ctx :
        /\ pc[c] = "returned" /\ result[c] = "Err"
        /\ INODE_WILDCARD \in ALLOWED_SB_MOUNT
        /\ INODE_WILDCARD \in DENIED_SB_MOUNT
        /\ pc[d] = "returned" /\ result[d] = "Deny" /\ Len(alerts[d]) = 1
====
